---- MODULE Spec2Model ----
(***************************************************************************)
(* MediPredict (app.py): the rule-based risk scorers, the BMI helper, the *)
(* safe parsers, the narrative composer and the Flask handlers around     *)
(* them (signup, login, logout, dashboard).                               *)
(*                                                                         *)
(* Numbers.  A raw form value is what request.form.get returns: None      *)
(* (Absent), a string that is no number literal (Text), or a number       *)
(* literal.  Literals are decimal literals with one fractional digit      *)
(* (Dec(t) is the literal of value t/10), a literal of a positive number  *)
(* so small that its square underflows to 0.0 in IEEE doubles (TinyLit,   *)
(* such as "1e-200"), "nan" and "inf".  A Python float is modelled as a   *)
(* rational n/d (kind "fin"), or one of tiny, nan, inf.                   *)
(***************************************************************************)
EXTENDS Integers, Sequences, FiniteSets, TLC

VARIABLES users, session, history, response, served, call, ret

vars == <<users, session, history, response, served, call, ret>>

webvars == <<users, session, history, response, served>>

-----------------------------------------------------------------------------
(* Raw form values *)

Absent == [kind |-> "absent", tenths |-> 0, s |-> ""]

Text(str) == [kind |-> "text", tenths |-> 0, s |-> str]

Dec(t) == [kind |-> "dec", tenths |-> t, s |-> ""]

TinyLit == [kind |-> "tiny", tenths |-> 0, s |-> ""]

NanLit == [kind |-> "nan", tenths |-> 0, s |-> ""]

InfLit == [kind |-> "inf", tenths |-> 0, s |-> ""]

(* Python floats *)

Fin(num, den) == [k |-> "fin", n |-> num, d |-> den]

Tenths(t) == Fin(t, 10)

Tiny == [k |-> "tiny", n |-> 0, d |-> 1]

NaN == [k |-> "nan", n |-> 0, d |-> 1]

Inf == [k |-> "inf", n |-> 0, d |-> 1]

(* A Python call either returns a value or raises. *)
Return(v) == [raised |-> FALSE, val |-> v]

Raise(exc) == [raised |-> TRUE, val |-> exc]

(* float(v): TypeError for None, ValueError for a string that is no      *)
(* number literal.                                                        *)
PyFloat(v) ==
  CASE v.kind = "absent" -> Raise("TypeError")
    [] v.kind = "text" -> Raise("ValueError")
    [] v.kind = "dec" -> Return(Tenths(v.tenths))
    [] v.kind = "tiny" -> Return(Tiny)
    [] v.kind = "nan" -> Return(NaN)
    [] v.kind = "inf" -> Return(Inf)

(* int(x) of a float: truncation toward zero; ValueError for nan,        *)
(* OverflowError for inf.                                                 *)
PyInt(x) ==
  CASE x.k = "nan" -> Raise("ValueError")
    [] x.k = "inf" -> Raise("OverflowError")
    [] x.k = "tiny" -> Return(0)
    [] x.k = "fin" ->
         Return(IF x.n >= 0 THEN x.n \div x.d ELSE -((-x.n) \div x.d))

s_float(v) ==
  LET r == PyFloat(v) IN IF r.raised THEN Tenths(0) ELSE r.val

s_int(v) ==
  LET r == PyFloat(v) IN
    IF r.raised THEN 0
    ELSE LET i == PyInt(r.val) IN IF i.raised THEN 0 ELSE i.val

(* Float comparisons with an integer-valued or decimal threshold c/cd.    *)
(* Every comparison with nan is False.                                    *)
FGe(x, c, cd) ==
  CASE x.k = "fin" -> x.n * cd >= c * x.d
    [] x.k = "tiny" -> c <= 0
    [] x.k = "inf" -> TRUE
    [] x.k = "nan" -> FALSE

FLt(x, c, cd) ==
  CASE x.k = "fin" -> x.n * cd < c * x.d
    [] x.k = "tiny" -> c > 0
    [] x.k = "inf" -> FALSE
    [] x.k = "nan" -> FALSE

FLe(x, c, cd) ==
  CASE x.k = "fin" -> x.n * cd <= c * x.d
    [] x.k = "tiny" -> c > 0
    [] x.k = "inf" -> FALSE
    [] x.k = "nan" -> FALSE

(* bool(x) of a float: only 0.0 is falsy. *)
Truthy(x) == ~(x.k = "fin" /\ x.n = 0)

(* x / 100.0 *)
FDiv100(x) ==
  IF x.k = "fin" THEN Fin(x.n, x.d * 100) ELSE x

(* x * x; the square of a tiny number underflows to 0.0. *)
FSquare(x) ==
  CASE x.k = "fin" -> Fin(x.n * x.n, x.d * x.d)
    [] x.k = "tiny" -> Fin(0, 1)
    [] x.k = "inf" -> Inf
    [] x.k = "nan" -> NaN

(* a / b for b >= 0 (b is a square); Python raises ZeroDivisionError      *)
(* whenever the divisor is 0.0, whatever the dividend.                    *)
FDiv(a, b) ==
  CASE b.k = "fin" /\ b.n = 0 -> Raise("ZeroDivisionError")
    [] b.k = "nan" \/ a.k = "nan" -> Return(NaN)
    [] b.k = "inf" -> Return(IF a.k = "inf" THEN NaN ELSE Fin(0, 1))
    [] a.k = "inf" -> Return(Inf)
    [] a.k = "tiny" -> Return(Tiny)
    [] OTHER -> Return(Fin(a.n * b.d, a.d * b.n))

(* round(x, 1): to the nearest tenth, ties to even. *)
FRound1(x) ==
  CASE x.k = "tiny" -> Tenths(0)
    [] x.k = "nan" -> NaN
    [] x.k = "inf" -> Inf
    [] x.k = "fin" ->
         LET q == x.n \div x.d
             r == x.n % x.d
             t == (10 * r) \div x.d
             rr == (10 * r) % x.d
             lo == 10 * q + t
         IN Tenths(IF 2 * rr < x.d THEN lo
                   ELSE IF 2 * rr > x.d THEN lo + 1
                   ELSE IF lo % 2 = 0 THEN lo ELSE lo + 1)

compute_bmi(height_cm, weight_kg) ==
  LET h_m == IF Truthy(height_cm) THEN FDiv100(height_cm) ELSE Fin(0, 1) IN
    IF FLe(h_m, 0, 1) THEN Return(Tenths(0))
    ELSE LET quo == FDiv(weight_kg, FSquare(h_m)) IN
           IF quo.raised THEN quo ELSE Return(FRound1(quo.val))

-----------------------------------------------------------------------------
(* Risk scorers *)

Acc0 == [score |-> 0, reasons |-> <<>>]

(* score += p; reasons.append(r) *)
Add(acc, p, r) == [score |-> acc.score + p, reasons |-> Append(acc.reasons, r)]

(* score_diabetes with the BMI rules as two independent ifs. *)
score_diabetes_bmi_twice(age, bmi, fasting_glucose, activity, fam_diabetes) ==
  LET a1 == IF age >= 45 THEN Add(Acc0, 2, "Age >= 45 (+2)") ELSE Acc0
      a2 == IF FGe(bmi, 30, 1) THEN Add(a1, 3, "BMI >= 30 (+3)")
            ELSE a1
      a2b == IF FGe(bmi, 25, 1) THEN Add(a2, 1, "BMI 25-29.9 (+1)") ELSE a2
      a3 == IF fasting_glucose >= 126
              THEN Add(a2b, 5, "Fasting glucose >= 126 mg/dL (+5)")
            ELSE IF fasting_glucose >= 100
              THEN Add(a2b, 3, "Fasting glucose 100-125 mg/dL (+3)")
            ELSE a2b
      a4 == IF activity = "low" THEN Add(a3, 2, "Low activity (+2)")
            ELSE IF activity = "medium" THEN Add(a3, 1, "Moderate activity (+1)")
            ELSE a3
      a5 == IF fam_diabetes THEN Add(a4, 2, "Family history of diabetes (+2)")
            ELSE a4
  IN [category |-> IF a5.score >= 7 THEN "High"
                   ELSE IF a5.score >= 4 THEN "Moderate" ELSE "Low",
      score |-> a5.score,
      reasons |-> a5.reasons]

(* score_diabetes with the points of the two glucose tiers exchanged. *)
score_diabetes_glucose_swapped(age, bmi, fasting_glucose, activity, fam_diabetes) ==
  LET a1 == IF age >= 45 THEN Add(Acc0, 2, "Age >= 45 (+2)") ELSE Acc0
      a2 == IF FGe(bmi, 30, 1) THEN Add(a1, 3, "BMI >= 30 (+3)")
            ELSE IF FGe(bmi, 25, 1) THEN Add(a1, 1, "BMI 25-29.9 (+1)")
            ELSE a1
      a3 == IF fasting_glucose >= 126
              THEN Add(a2, 3, "Fasting glucose >= 126 mg/dL (+5)")
            ELSE IF fasting_glucose >= 100
              THEN Add(a2, 5, "Fasting glucose 100-125 mg/dL (+3)")
            ELSE a2
      a4 == IF activity = "low" THEN Add(a3, 2, "Low activity (+2)")
            ELSE IF activity = "medium" THEN Add(a3, 1, "Moderate activity (+1)")
            ELSE a3
      a5 == IF fam_diabetes THEN Add(a4, 2, "Family history of diabetes (+2)")
            ELSE a4
  IN [category |-> IF a5.score >= 7 THEN "High"
                   ELSE IF a5.score >= 4 THEN "Moderate" ELSE "Low",
      score |-> a5.score,
      reasons |-> a5.reasons]

score_diabetes(age, bmi, fasting_glucose, activity, fam_diabetes) ==
  LET a1 == IF age >= 45 THEN Add(Acc0, 2, "Age >= 45 (+2)") ELSE Acc0
      a2 == IF FGe(bmi, 30, 1) THEN Add(a1, 3, "BMI >= 30 (+3)")
            ELSE IF FGe(bmi, 25, 1) THEN Add(a1, 1, "BMI 25-29.9 (+1)")
            ELSE a1
      a3 == IF fasting_glucose >= 126
              THEN Add(a2, 5, "Fasting glucose >= 126 mg/dL (+5)")
            ELSE IF fasting_glucose >= 100
              THEN Add(a2, 3, "Fasting glucose 100-125 mg/dL (+3)")
            ELSE a2
      a4 == IF activity = "low" THEN Add(a3, 2, "Low activity (+2)")
            ELSE IF activity = "medium" THEN Add(a3, 1, "Moderate activity (+1)")
            ELSE a3
      a5 == IF fam_diabetes THEN Add(a4, 2, "Family history of diabetes (+2)")
            ELSE a4
  IN [category |-> IF a5.score >= 7 THEN "High"
                   ELSE IF a5.score >= 4 THEN "Moderate" ELSE "Low",
      score |-> a5.score,
      reasons |-> a5.reasons]

(* score_hypertension whose top tier needs both readings. *)
score_hypertension_and(age, systolic, diastolic, bmi, smoker) ==
  LET a1 == IF systolic >= 160 /\ diastolic >= 100
              THEN Add(Acc0, 5, "Stage 2 BP (>=160/>=100) (+5)")
            ELSE IF systolic >= 140 \/ diastolic >= 90
              THEN Add(Acc0, 3, "Stage 1 BP (>=140/>=90) (+3)")
            ELSE IF systolic >= 130 \/ diastolic >= 80
              THEN Add(Acc0, 2, "Elevated BP (>=130/>=80) (+2)")
            ELSE Acc0
      a2 == IF age >= 55 THEN Add(a1, 2, "Age >= 55 (+2)") ELSE a1
      a3 == IF FGe(bmi, 30, 1) THEN Add(a2, 2, "BMI >= 30 (+2)")
            ELSE IF FGe(bmi, 25, 1) THEN Add(a2, 1, "BMI 25-29.9 (+1)")
            ELSE a2
      a4 == IF smoker THEN Add(a3, 2, "Smoker (+2)") ELSE a3
  IN [category |-> IF a4.score >= 7 THEN "High"
                   ELSE IF a4.score >= 4 THEN "Moderate" ELSE "Low",
      score |-> a4.score,
      reasons |-> a4.reasons]

score_hypertension(age, systolic, diastolic, bmi, smoker) ==
  LET a1 == IF systolic >= 160 \/ diastolic >= 100
              THEN Add(Acc0, 5, "Stage 2 BP (>=160/>=100) (+5)")
            ELSE IF systolic >= 140 \/ diastolic >= 90
              THEN Add(Acc0, 3, "Stage 1 BP (>=140/>=90) (+3)")
            ELSE IF systolic >= 130 \/ diastolic >= 80
              THEN Add(Acc0, 2, "Elevated BP (>=130/>=80) (+2)")
            ELSE Acc0
      a2 == IF age >= 55 THEN Add(a1, 2, "Age >= 55 (+2)") ELSE a1
      a3 == IF FGe(bmi, 30, 1) THEN Add(a2, 2, "BMI >= 30 (+2)")
            ELSE IF FGe(bmi, 25, 1) THEN Add(a2, 1, "BMI 25-29.9 (+1)")
            ELSE a2
      a4 == IF smoker THEN Add(a3, 2, "Smoker (+2)") ELSE a3
  IN [category |-> IF a4.score >= 7 THEN "High"
                   ELSE IF a4.score >= 4 THEN "Moderate" ELSE "Low",
      score |-> a4.score,
      reasons |-> a4.reasons]

(* score_heart reading the diabetes category the previous request left. *)
score_heart_stale(age, gender, cholesterol, smoker, diabetes_cat, systolic) ==
  LET stale_cat == IF history = <<>> THEN diabetes_cat
                   ELSE history[Len(history)].diabetes_risk
      a1 == IF (gender = "male" /\ age >= 45) \/ (gender = "female" /\ age >= 55)
              THEN Add(Acc0, 2, "Age threshold (+2)")
            ELSE Acc0
      a2 == IF cholesterol >= 240
              THEN Add(a1, 3, "Total cholesterol >= 240 (+3)")
            ELSE IF cholesterol >= 200
              THEN Add(a1, 2, "Total cholesterol 200-239 (+2)")
            ELSE a1
      a3 == IF smoker THEN Add(a2, 2, "Smoker (+2)") ELSE a2
      a4 == IF stale_cat = "High"
              THEN Add(a3, 2, "High diabetes risk (+2)")
            ELSE IF stale_cat = "Moderate"
              THEN Add(a3, 1, "Moderate diabetes risk (+1)")
            ELSE a3
      a5 == IF systolic >= 140 THEN Add(a4, 2, "Systolic BP >= 140 (+2)")
            ELSE IF systolic >= 130 THEN Add(a4, 1, "Systolic BP 130-139 (+1)")
            ELSE a4
  IN [category |-> IF a5.score >= 7 THEN "High"
                   ELSE IF a5.score >= 4 THEN "Moderate" ELSE "Low",
      score |-> a5.score,
      reasons |-> a5.reasons]

(* score_heart whose second age threshold applies to every gender. *)
score_heart_any_gender(age, gender, cholesterol, smoker, diabetes_cat, systolic) ==
  LET a1 == IF (gender = "male" /\ age >= 45) \/ age >= 55
              THEN Add(Acc0, 2, "Age threshold (+2)")
            ELSE Acc0
      a2 == IF cholesterol >= 240
              THEN Add(a1, 3, "Total cholesterol >= 240 (+3)")
            ELSE IF cholesterol >= 200
              THEN Add(a1, 2, "Total cholesterol 200-239 (+2)")
            ELSE a1
      a3 == IF smoker THEN Add(a2, 2, "Smoker (+2)") ELSE a2
      a4 == IF diabetes_cat = "High"
              THEN Add(a3, 2, "High diabetes risk (+2)")
            ELSE IF diabetes_cat = "Moderate"
              THEN Add(a3, 1, "Moderate diabetes risk (+1)")
            ELSE a3
      a5 == IF systolic >= 140 THEN Add(a4, 2, "Systolic BP >= 140 (+2)")
            ELSE IF systolic >= 130 THEN Add(a4, 1, "Systolic BP 130-139 (+1)")
            ELSE a4
  IN [category |-> IF a5.score >= 7 THEN "High"
                   ELSE IF a5.score >= 4 THEN "Moderate" ELSE "Low",
      score |-> a5.score,
      reasons |-> a5.reasons]

(* score_heart with a strict comparison at the High threshold. *)
score_heart_strict(age, gender, cholesterol, smoker, diabetes_cat, systolic) ==
  LET a1 == IF (gender = "male" /\ age >= 45) \/ (gender = "female" /\ age >= 55)
              THEN Add(Acc0, 2, "Age threshold (+2)")
            ELSE Acc0
      a2 == IF cholesterol >= 240
              THEN Add(a1, 3, "Total cholesterol >= 240 (+3)")
            ELSE IF cholesterol >= 200
              THEN Add(a1, 2, "Total cholesterol 200-239 (+2)")
            ELSE a1
      a3 == IF smoker THEN Add(a2, 2, "Smoker (+2)") ELSE a2
      a4 == IF diabetes_cat = "High"
              THEN Add(a3, 2, "High diabetes risk (+2)")
            ELSE IF diabetes_cat = "Moderate"
              THEN Add(a3, 1, "Moderate diabetes risk (+1)")
            ELSE a3
      a5 == IF systolic >= 140 THEN Add(a4, 2, "Systolic BP >= 140 (+2)")
            ELSE IF systolic >= 130 THEN Add(a4, 1, "Systolic BP 130-139 (+1)")
            ELSE a4
  IN [category |-> IF a5.score > 7 THEN "High"
                   ELSE IF a5.score >= 4 THEN "Moderate" ELSE "Low",
      score |-> a5.score,
      reasons |-> a5.reasons]

score_heart(age, gender, cholesterol, smoker, diabetes_cat, systolic) ==
  LET a1 == IF (gender = "male" /\ age >= 45) \/ (gender = "female" /\ age >= 55)
              THEN Add(Acc0, 2, "Age threshold (+2)")
            ELSE Acc0
      a2 == IF cholesterol >= 240
              THEN Add(a1, 3, "Total cholesterol >= 240 (+3)")
            ELSE IF cholesterol >= 200
              THEN Add(a1, 2, "Total cholesterol 200-239 (+2)")
            ELSE a1
      a3 == IF smoker THEN Add(a2, 2, "Smoker (+2)") ELSE a2
      a4 == IF diabetes_cat = "High"
              THEN Add(a3, 2, "High diabetes risk (+2)")
            ELSE IF diabetes_cat = "Moderate"
              THEN Add(a3, 1, "Moderate diabetes risk (+1)")
            ELSE a3
      a5 == IF systolic >= 140 THEN Add(a4, 2, "Systolic BP >= 140 (+2)")
            ELSE IF systolic >= 130 THEN Add(a4, 1, "Systolic BP 130-139 (+1)")
            ELSE a4
  IN [category |-> IF a5.score >= 7 THEN "High"
                   ELSE IF a5.score >= 4 THEN "Moderate" ELSE "Low",
      score |-> a5.score,
      reasons |-> a5.reasons]

-----------------------------------------------------------------------------
(* Text.  A Python str is modelled as the sequence of its fragments: a    *)
(* literal piece of the source text, a formatted value, or a separator.   *)

(* str(x) of a float with at most one fractional digit *)
FormatFloat(x) ==
  CASE x.k = "nan" -> "nan"
    [] x.k = "inf" -> "inf"
    [] x.k = "tiny" -> "1e-200"
    [] x.k = "fin" ->
         LET t == (x.n * 10) \div x.d IN
           IF t >= 0 THEN ToString(t \div 10) \o "." \o ToString(t % 10)
           ELSE "-" \o ToString((-t) \div 10) \o "." \o ToString((-t) % 10)

RECURSIVE Join(_, _)
(* sep.join(items): every item is a str, i.e. a sequence of fragments *)
Join(sep, items) ==
  IF items = <<>> THEN <<>>
  ELSE IF Len(items) = 1 THEN items[1]
  ELSE items[1] \o <<sep>> \o Join(sep, Tail(items))

AdvDiabetes == <<"* You may be at risk for **diabetes**. Consider checking HbA1c and fasting glucose with a clinician.">>

AdvHypertension == <<"* Your blood pressure profile suggests a **hypertension** risk. Home BP monitoring for 2-3 weeks is helpful.">>

AdvHeart == <<"* Cardiovascular risk is elevated. Discuss a lipid profile and lifestyle plan with your clinician.">>

TipWeightLoss == <<"Aim for gradual weight loss (5-7% in 3-6 months).">>

TipUnderweight == <<"Your BMI is low - ensure adequate calories and protein; consider a nutrition consult.">>

TipGlucoseDiabetic == <<"Fasting glucose is in diabetic range - seek medical evaluation soon.">>

TipGlucoseElevated == <<"Fasting glucose is elevated - reduce refined sugar and increase fiber.">>

TipBP == <<"Lower salt intake, manage stress, and check BP at home 3-4 days/week.">>

TipCholHigh == <<"Cholesterol is high - consider a lipid panel and Mediterranean-style diet.">>

TipCholBorderline == <<"Borderline cholesterol - focus on unsaturated fats and regular exercise.">>

TipSmoking == <<"Smoking cessation gives the biggest health win - consider a cessation plan.">>

TipWalking == <<"Start with 30 minutes of brisk walking at least 5 days/week.">>

TipGeneric == <<"Keep up the great work! Maintain regular activity and balanced meals.">>

CareTips == "**Care Tips:** "

Disclaimer == <<"This tool is educational and not a diagnosis. For symptoms or concerns, see a licensed clinician.">>

Header(age, bmi, systolic, diastolic, fasting_glucose, cholesterol) ==
  << "Based on your details (Age ", ToString(age),
     ", BMI ", FormatFloat(bmi),
     ", BP ", ToString(systolic), "/", ToString(diastolic),
     " mmHg, Fasting Glucose ", ToString(fasting_glucose),
     " mg/dL, Cholesterol ", ToString(cholesterol),
     " mg/dL), here's a quick health check:" >>

(* The tips list of ai_guidance, before the joining. *)
(* The tips list with the emptiness test before the activity tip. *)
Tips_generic_early(bmi, fasting_glucose, systolic, diastolic, cholesterol, smoker, activity) ==
  LET t1 == IF FGe(bmi, 30, 1) THEN <<TipWeightLoss>>
            ELSE IF FLt(bmi, 185, 10) THEN <<TipUnderweight>>
            ELSE <<>>
      t2 == IF fasting_glucose >= 126 THEN Append(t1, TipGlucoseDiabetic)
            ELSE IF fasting_glucose >= 100 THEN Append(t1, TipGlucoseElevated)
            ELSE t1
      t3 == IF systolic >= 140 \/ diastolic >= 90 THEN Append(t2, TipBP) ELSE t2
      t4 == IF cholesterol >= 240 THEN Append(t3, TipCholHigh)
            ELSE IF cholesterol >= 200 THEN Append(t3, TipCholBorderline)
            ELSE t3
      t5 == IF smoker THEN Append(t4, TipSmoking) ELSE t4
      t5g == IF t5 = <<>> THEN <<TipGeneric>> ELSE t5
  IN IF activity = "low" THEN Append(t5g, TipWalking) ELSE t5g

Tips(bmi, fasting_glucose, systolic, diastolic, cholesterol, smoker, activity) ==
  LET t1 == IF FGe(bmi, 30, 1) THEN <<TipWeightLoss>>
            ELSE IF FLt(bmi, 185, 10) THEN <<TipUnderweight>>
            ELSE <<>>
      t2 == IF fasting_glucose >= 126 THEN Append(t1, TipGlucoseDiabetic)
            ELSE IF fasting_glucose >= 100 THEN Append(t1, TipGlucoseElevated)
            ELSE t1
      t3 == IF systolic >= 140 \/ diastolic >= 90 THEN Append(t2, TipBP) ELSE t2
      t4 == IF cholesterol >= 240 THEN Append(t3, TipCholHigh)
            ELSE IF cholesterol >= 200 THEN Append(t3, TipCholBorderline)
            ELSE t3
      t5 == IF smoker THEN Append(t4, TipSmoking) ELSE t4
      t6 == IF activity = "low" THEN Append(t5, TipWalking) ELSE t5
  IN IF t6 = <<>> THEN <<TipGeneric>> ELSE t6

(* ai_guidance with the hypertension advisory before the diabetes one. *)
ai_guidance_reordered(inputs, res) ==
  LET p0 == << Header(inputs.age, inputs.bmi, inputs.systolic, inputs.diastolic,
                      inputs.fasting_glucose, inputs.cholesterol) >>
      p1 == IF res.hypertension.category # "Low"
              THEN Append(p0, AdvHypertension) ELSE p0
      p2 == IF res.diabetes.category # "Low" THEN Append(p1, AdvDiabetes) ELSE p1
      p3 == IF res.heart.category # "Low" THEN Append(p2, AdvHeart) ELSE p2
      tips == Tips(inputs.bmi, inputs.fasting_glucose, inputs.systolic,
                   inputs.diastolic, inputs.cholesterol, inputs.smoker,
                   inputs.activity)
      p4 == Append(p3, <<CareTips>> \o Join(" ", tips))
      p5 == Append(p4, Disclaimer)
  IN Join("\n", p5)

ai_guidance(inputs, res) ==
  LET p0 == << Header(inputs.age, inputs.bmi, inputs.systolic, inputs.diastolic,
                      inputs.fasting_glucose, inputs.cholesterol) >>
      p1 == IF res.diabetes.category # "Low" THEN Append(p0, AdvDiabetes) ELSE p0
      p2 == IF res.hypertension.category # "Low"
              THEN Append(p1, AdvHypertension) ELSE p1
      p3 == IF res.heart.category # "Low" THEN Append(p2, AdvHeart) ELSE p2
      tips == Tips(inputs.bmi, inputs.fasting_glucose, inputs.systolic,
                   inputs.diastolic, inputs.cholesterol, inputs.smoker,
                   inputs.activity)
      p4 == Append(p3, <<CareTips>> \o Join(" ", tips))
      p5 == Append(p4, Disclaimer)
  IN Join("\n", p5)

-----------------------------------------------------------------------------
(* The dashboard handler *)

(* request.form.get(key, default) of a text field *)
(* request.form.get(key) without the default *)
FormGet_nodefault(form, key, default) == form[key].s

FormGet(form, key, default) ==
  IF form[key].kind = "absent" THEN default ELSE form[key].s

(* request.form.get(key) == "yes" *)
FormIsYes(form, key) ==
  form[key].kind = "text" /\ form[key].s = "yes"

JsonBool(b) == IF b THEN "true" ELSE "false"

JsonFloat(x) ==
  CASE x.k = "nan" -> "NaN"
    [] x.k = "inf" -> "Infinity"
    [] OTHER -> FormatFloat(x)

JsonStr(str) == "\"" \o str \o "\""

(* json.dumps(inputs): the members in insertion order *)
JsonDumps(inputs) ==
  << <<"gender", JsonStr(inputs.gender)>>,
     <<"age", ToString(inputs.age)>>,
     <<"height_cm", JsonFloat(inputs.height_cm)>>,
     <<"weight_kg", JsonFloat(inputs.weight_kg)>>,
     <<"bmi", JsonFloat(inputs.bmi)>>,
     <<"systolic", ToString(inputs.systolic)>>,
     <<"diastolic", ToString(inputs.diastolic)>>,
     <<"fasting_glucose", ToString(inputs.fasting_glucose)>>,
     <<"cholesterol", ToString(inputs.cholesterol)>>,
     <<"smoker", JsonBool(inputs.smoker)>>,
     <<"activity", JsonStr(inputs.activity)>>,
     <<"fam_diabetes", JsonBool(inputs.fam_diabetes)>> >>

(* The POST branch of dashboard up to the narrative: reading the form,   *)
(* the BMI, the three scorers in order, the result and inputs objects     *)
(* and the narrative.  An exception of compute_bmi propagates.            *)
assess(form) ==
  LET gender == FormGet(form, "gender", "male")
      age == s_int(form.age)
      height_cm == s_float(form.height_cm)
      weight_kg == s_float(form.weight_kg)
      systolic == s_int(form.systolic)
      diastolic == s_int(form.diastolic)
      fasting_glucose == s_int(form.fasting_glucose)
      cholesterol == s_int(form.cholesterol)
      smoker == FormIsYes(form, "smoker")
      activity == FormGet(form, "activity", "low")
      fam_diabetes == FormIsYes(form, "fam_diabetes")
      bmi_r == compute_bmi(height_cm, weight_kg)
  IN IF bmi_r.raised THEN bmi_r
     ELSE
       LET bmi == bmi_r.val
           d == score_diabetes(age, bmi, fasting_glucose, activity, fam_diabetes)
           h == score_hypertension(age, systolic, diastolic, bmi, smoker)
           c == score_heart(age, gender, cholesterol, smoker, d.category, systolic)
           result == [bmi |-> bmi, diabetes |-> d, hypertension |-> h,
                      heart |-> c, tips |-> <<>>]
           inputs == [gender |-> gender, age |-> age, height_cm |-> height_cm,
                      weight_kg |-> weight_kg, bmi |-> bmi, systolic |-> systolic,
                      diastolic |-> diastolic, fasting_glucose |-> fasting_glucose,
                      cholesterol |-> cholesterol, smoker |-> smoker,
                      activity |-> activity, fam_diabetes |-> fam_diabetes]
       IN Return([result |-> result, inputs |-> inputs,
                  narrative |-> ai_guidance(inputs, result)])

(* The response of a dashboard POST of a logged-in session: the rendered  *)
(* template with result and narrative, or the 500 page of an exception.   *)
Rendered(a) ==
  IF a.raised
    THEN [status |-> 500, template |-> "", exc |-> a.val]
    ELSE [status |-> 200, template |-> "dashboard.html",
          result |-> a.val.result, narrative |-> a.val.narrative]

(* The row the handler inserts into history *)
HistoryRow(user_id, a) ==
  [user_id |-> user_id,
   inputs_json |-> JsonDumps(a.val.inputs),
   diabetes_risk |-> a.val.result.diabetes.category,
   hypertension_risk |-> a.val.result.hypertension.category,
   heart_risk |-> a.val.result.heart.category,
   narrative |-> a.val.narrative]

-----------------------------------------------------------------------------
(* Bounds and input sets *)

MaxHistory == 3

Clients == {"c1", "c2"}

Usernames == {"alice", "bob"}

Passwords == {"pw"}

Salts == {"s1"}

Form(g, a, h, w, sy, di, fg, ch, sm, ac, fd) ==
  [gender |-> g, age |-> a, height_cm |-> h, weight_kg |-> w,
   systolic |-> sy, diastolic |-> di, fasting_glucose |-> fg,
   cholesterol |-> ch, smoker |-> sm, activity |-> ac, fam_diabetes |-> fd]

(* Scenario A of the specification, the empty form and a form whose     *)
(* height is a tiny positive number.                                      *)
FormA ==
  Form(Text("male"), Dec(500), Dec(1700), Dec(925), Dec(1200), Dec(700),
       Dec(1300), Dec(1800), Absent, Text("low"), Text("yes"))

FormEmpty ==
  Form(Absent, Absent, Absent, Absent, Absent, Absent, Absent, Absent,
       Absent, Absent, Absent)

FormTiny ==
  Form(Text("male"), Dec(500), TinyLit, Dec(700), Dec(1200), Dec(800),
       Dec(900), Dec(1800), Absent, Text("medium"), Absent)

WebForms == {FormA, FormEmpty, FormTiny}

(* The raw forms of the single-request specification: per field, absent   *)
(* or malformed values and values on both sides of the rules' thresholds. *)
RawForms ==
  [gender : {Absent, Text("female"), Text("other")},
   age : {Absent, Dec(449), Dec(600)},
   height_cm : {Dec(0), Dec(-1700), Dec(1700), TinyLit, NanLit},
   weight_kg : {Absent, Dec(700), Dec(925)},
   systolic : {Text(""), Dec(1350), Dec(1450)},
   diastolic : {Absent, Dec(950)},
   fasting_glucose : {Text("abc"), Dec(1100)},
   cholesterol : {Absent, Dec(2100), Dec(2500)},
   smoker : {Absent, Text("yes")},
   activity : {Absent, Text("medium"), Text("xyz")},
   fam_diabetes : {Text("no"), Text("yes")}]

(* Typed arguments of the scorers *)
Ages == {0, 44, 45, 50, 54, 55, 60}

BMIs == {Tenths(0), Tenths(184), Tenths(185), Tenths(249), Tenths(250),
         Tenths(299), Tenths(300), Tenths(320), NaN, Inf}

Glucoses == {0, 99, 100, 125, 126, 130}

Systolics == {0, 125, 129, 130, 139, 140, 145, 159, 160}

Diastolics == {0, 78, 79, 80, 89, 90, 99, 100}

Cholesterols == {0, 199, 200, 239, 240, 250}

Activities == {"low", "medium", "high", "xyz"}

Genders == {"male", "female", "other"}

Categories == {"Low", "Moderate", "High"}

DiabetesCalls ==
  [fn : {"score_diabetes"}, age : Ages, bmi : BMIs, fasting_glucose : Glucoses,
   activity : Activities, fam_diabetes : BOOLEAN]

HypertensionCalls ==
  [fn : {"score_hypertension"}, age : {40, 54, 55}, systolic : Systolics,
   diastolic : Diastolics, bmi : {Tenths(220), Tenths(250), Tenths(300), NaN},
   smoker : BOOLEAN]

HeartCalls ==
  [fn : {"score_heart"}, age : Ages, gender : Genders,
   cholesterol : Cholesterols, smoker : BOOLEAN, diabetes_cat : Categories,
   systolic : {0, 129, 130, 139, 140, 145}]

NoCall == [fn |-> "none"]

NoRet == [done |-> FALSE]

Done(v) == [done |-> TRUE, val |-> v]

NoResponse == [status |-> 0, template |-> ""]

-----------------------------------------------------------------------------
(* The web application *)

Init ==
  /\ users = <<>>
  /\ session = [c \in Clients |-> 0]
  /\ history = <<>>
  /\ response = NoResponse
  /\ served = {}
  /\ call = NoCall
  /\ ret = NoRet

Redirect(c, to) == [client |-> c, status |-> 302, template |-> "", location |-> to]

Page(c, tpl, msg) == [client |-> c, status |-> 200, template |-> tpl, flash |-> msg]

UserIdOf(username) ==
  LET ix == {i \in 1..Len(users) : users[i].username = username} IN
    IF ix = {} THEN 0 ELSE CHOOSE i \in ix : TRUE

(* generate_password_hash / check_password_hash *)
generate_password_hash(password, salt) == [salt |-> salt, digest |-> <<salt, password>>]

check_password_hash(h, password) == h.digest = <<h.salt, password>>

Index(c) ==
  /\ response' = IF session[c] # 0 THEN Redirect(c, "dashboard")
                 ELSE Page(c, "index.html", "")
  /\ UNCHANGED <<users, session, history, served, call, ret>>

Signup(c, method, username, password, salt) ==
  /\ IF method = "GET" THEN
       /\ response' = Page(c, "signup.html", "")
       /\ UNCHANGED users
     ELSE IF username = "" \/ password = "" THEN
       /\ response' = Page(c, "signup.html", "Please fill both username and password.")
       /\ UNCHANGED users
     ELSE IF UserIdOf(username) # 0 THEN
       /\ response' = Page(c, "signup.html", "Username already exists. Try logging in.")
       /\ UNCHANGED users
     ELSE
       /\ users' = Append(users, [id |-> Len(users) + 1, username |-> username,
                                  password_hash |-> generate_password_hash(password, salt)])
       /\ response' = Redirect(c, "login")
  /\ UNCHANGED <<session, history, served, call, ret>>

Login(c, method, username, password) ==
  /\ IF method = "POST" /\ UserIdOf(username) # 0
          /\ check_password_hash(users[UserIdOf(username)].password_hash, password)
     THEN /\ session' = [session EXCEPT ![c] = users[UserIdOf(username)].id]
          /\ response' = Redirect(c, "dashboard")
     ELSE /\ response' = Page(c, "login.html",
                              IF method = "POST" THEN "Invalid credentials." ELSE "")
          /\ UNCHANGED session
  /\ UNCHANGED <<users, history, served, call, ret>>

Logout(c) ==
  /\ session' = [session EXCEPT ![c] = 0]
  /\ response' = Redirect(c, "index")
  /\ UNCHANGED <<users, history, served, call, ret>>

DashboardGet(c) ==
  /\ response' = IF session[c] = 0 THEN Redirect(c, "login")
                 ELSE Page(c, "dashboard.html", "")
  /\ UNCHANGED <<users, session, history, served, call, ret>>

DashboardPost(c, form) ==
  /\ Len(history) < MaxHistory
  /\ IF session[c] = 0 THEN
       /\ response' = Redirect(c, "login")
       /\ UNCHANGED <<history, served>>
     ELSE
       LET a == assess(form) IN
         /\ response' = [client |-> c] @@ Rendered(a)
         /\ IF a.raised THEN UNCHANGED <<history, served>>
            ELSE /\ history' = Append(history, HistoryRow(session[c], a))
                 /\ served' = served \cup {[form |-> form, report |-> Rendered(a)]}
  /\ UNCHANGED <<users, session>>

Next ==
  \/ \E c \in Clients : Index(c)
  \/ \E c \in Clients, m \in {"GET", "POST"}, u \in Usernames \cup {""},
        p \in Passwords \cup {""}, s \in Salts : Signup(c, m, u, p, s)
  \/ \E c \in Clients, m \in {"GET", "POST"}, u \in Usernames,
        p \in Passwords \cup {"bad"} : Login(c, m, u, p)
  \/ \E c \in Clients : Logout(c)
  \/ \E c \in Clients : DashboardGet(c)
  \/ \E c \in Clients, f \in WebForms :
        DashboardPost(c, f) /\ UNCHANGED <<call, ret>>

Spec == Init /\ [][Next]_vars

-----------------------------------------------------------------------------
(* The scorers applied to typed arguments *)

InitScorers ==
  /\ users = <<>>
  /\ session = [c \in Clients |-> 0]
  /\ history = <<>>
  /\ response = NoResponse
  /\ served = {}
  /\ call \in DiabetesCalls \cup HypertensionCalls \cup HeartCalls
  /\ ret = NoRet

CallScoreDiabetes ==
  /\ call.fn = "score_diabetes" /\ ~ret.done
  /\ ret' = Done(score_diabetes(call.age, call.bmi, call.fasting_glucose,
                                call.activity, call.fam_diabetes))
  /\ UNCHANGED <<webvars, call>>

CallScoreHypertension ==
  /\ call.fn = "score_hypertension" /\ ~ret.done
  /\ ret' = Done(score_hypertension(call.age, call.systolic, call.diastolic,
                                    call.bmi, call.smoker))
  /\ UNCHANGED <<webvars, call>>

CallScoreHeart ==
  /\ call.fn = "score_heart" /\ ~ret.done
  /\ ret' = Done(score_heart(call.age, call.gender, call.cholesterol,
                             call.smoker, call.diabetes_cat, call.systolic))
  /\ UNCHANGED <<webvars, call>>

NextScorers == CallScoreDiabetes \/ CallScoreHypertension \/ CallScoreHeart

SpecScorers == InitScorers /\ [][NextScorers]_vars

-----------------------------------------------------------------------------
(* One dashboard POST of a logged-in session, over the raw forms *)

InitAssess ==
  /\ users = << [id |-> 1, username |-> "alice",
                 password_hash |-> generate_password_hash("pw", "s1")] >>
  /\ session = [c \in Clients |-> IF c = "c1" THEN 1 ELSE 0]
  /\ history = <<>>
  /\ response = NoResponse
  /\ served = {}
  /\ call \in [fn : {"dashboard"}, client : {"c1"}, form : RawForms]
  /\ ret = NoRet

CallDashboard ==
  /\ call.fn = "dashboard" /\ ~ret.done
  /\ DashboardPost(call.client, call.form)
  /\ ret' = Done(response'.status)
  /\ UNCHANGED call

NextAssess == CallDashboard

SpecAssess == InitAssess /\ [][NextAssess]_vars

-----------------------------------------------------------------------------
(* Properties of the scorers (SpecScorers) *)

(* C1: in all three scorers the returned category is a function of the   *)
(* returned score: High iff score >= 7, Moderate iff 4 <= score <= 6,    *)
(* Low iff score <= 3.                                                    *)
C1_CategoryByScore ==
  ret.done =>
    /\ ret.val.category \in Categories
    /\ (ret.val.category = "High") = (ret.val.score >= 7)
    /\ (ret.val.category = "Moderate") = (4 <= ret.val.score /\ ret.val.score <= 6)
    /\ (ret.val.category = "Low") = (ret.val.score <= 3)

C1_Witness ==
  /\ ret.done /\ call.fn = "score_heart"
  /\ ret.val.score = 7 /\ ret.val.category = "High"

(* The rule table of the diabetes scorer as a sum *)
DiabetesTable(age, bmi, fasting_glucose, activity, fam_diabetes) ==
    (IF age >= 45 THEN 2 ELSE 0)
  + (IF FGe(bmi, 30, 1) THEN 3 ELSE IF FGe(bmi, 25, 1) THEN 1 ELSE 0)
  + (IF fasting_glucose >= 126 THEN 5 ELSE IF fasting_glucose >= 100 THEN 3 ELSE 0)
  + (IF activity = "low" THEN 2 ELSE IF activity = "medium" THEN 1 ELSE 0)
  + (IF fam_diabetes THEN 2 ELSE 0)

(* C2: score_diabetes returns the sum of its rule table; scenario A      *)
(* (age 50, BMI 32, glucose 130, low activity, family history)           *)
(* scores 14 and is High, and no score exceeds 14.                        *)
C2_DiabetesScore ==
  (ret.done /\ call.fn = "score_diabetes") =>
    /\ ret.val.score = DiabetesTable(call.age, call.bmi, call.fasting_glucose,
                                     call.activity, call.fam_diabetes)
    /\ ret.val.score <= 14
    /\ (/\ call.age = 50 /\ call.bmi = Tenths(320) /\ call.fasting_glucose = 130
        /\ call.activity = "low" /\ call.fam_diabetes)
         => (ret.val.score = 14 /\ ret.val.category = "High")

C2_Witness ==
  /\ ret.done /\ call.fn = "score_diabetes"
  /\ call.bmi = Tenths(320) /\ call.fasting_glucose = 130
  /\ call.activity = "low" /\ call.fam_diabetes /\ call.age = 50
  /\ ret.val.score = 14

(* The blood-pressure ladder of the hypertension scorer *)
BPTier(systolic, diastolic) ==
  IF systolic >= 160 \/ diastolic >= 100 THEN 5
  ELSE IF systolic >= 140 \/ diastolic >= 90 THEN 3
  ELSE IF systolic >= 130 \/ diastolic >= 80 THEN 2
  ELSE 0

(* C3: the blood-pressure rule of score_hypertension contributes exactly *)
(* one of 0, 2, 3, 5, the highest tier reached by either reading; with   *)
(* +2 for age >= 55, +2/+1 for BMI >= 30/25 and +2 for a smoker, the     *)
(* inputs 125/78, age 40, BMI 22, non-smoker score 0 and are Low.         *)
C3_HypertensionScore ==
  (ret.done /\ call.fn = "score_hypertension") =>
    /\ ret.val.score =
           BPTier(call.systolic, call.diastolic)
         + (IF call.age >= 55 THEN 2 ELSE 0)
         + (IF FGe(call.bmi, 30, 1) THEN 2 ELSE IF FGe(call.bmi, 25, 1) THEN 1 ELSE 0)
         + (IF call.smoker THEN 2 ELSE 0)
    /\ Len(SelectSeq(ret.val.reasons,
                     LAMBDA r : r \in {"Stage 2 BP (>=160/>=100) (+5)",
                                       "Stage 1 BP (>=140/>=90) (+3)",
                                       "Elevated BP (>=130/>=80) (+2)"})) <= 1
    /\ (/\ call.systolic = 125 /\ call.diastolic = 78 /\ call.age = 40
        /\ call.bmi = Tenths(220) /\ ~call.smoker)
         => (ret.val.score = 0 /\ ret.val.category = "Low")

C3_Witness ==
  /\ ret.done /\ call.fn = "score_hypertension"
  /\ call.systolic = 125 /\ call.diastolic = 100
  /\ "Stage 2 BP (>=160/>=100) (+5)" \in {ret.val.reasons[i] : i \in 1..Len(ret.val.reasons)}

-----------------------------------------------------------------------------
(* Properties of one dashboard assessment (SpecAssess) *)

(* The request of the state has been handled and a report was rendered. *)
Assessed == ret.done /\ response.status = 200

(* The normalized fields of the handled request *)
ReqAge == s_int(call.form.age)

ReqGender == FormGet(call.form, "gender", "male")

ReqSystolic == s_int(call.form.systolic)

ReqDiastolic == s_int(call.form.diastolic)

ReqGlucose == s_int(call.form.fasting_glucose)

ReqCholesterol == s_int(call.form.cholesterol)

ReqSmoker == FormIsYes(call.form, "smoker")

ReqActivity == FormGet(call.form, "activity", "low")

(* C4: score_heart returns +2 for (male and age >= 45) or (female and    *)
(* age >= 55), +3/+2 for cholesterol >= 240/200, +2 for a smoker, +2/+1  *)
(* for the diabetes category High/Moderate of the same request, +2/+1    *)
(* for systolic >= 140/130; female, 60, cholesterol 250, smoker,         *)
(* diabetes Moderate, systolic 145 scores 10 and is High.                 *)
C4_HeartScore ==
  Assessed =>
    LET d_cat == response.result.diabetes.category
        heart == response.result.heart
    IN /\ heart.score =
              (IF (ReqGender = "male" /\ ReqAge >= 45)
                  \/ (ReqGender = "female" /\ ReqAge >= 55) THEN 2 ELSE 0)
            + (IF ReqCholesterol >= 240 THEN 3
               ELSE IF ReqCholesterol >= 200 THEN 2 ELSE 0)
            + (IF ReqSmoker THEN 2 ELSE 0)
            + (IF d_cat = "High" THEN 2 ELSE IF d_cat = "Moderate" THEN 1 ELSE 0)
            + (IF ReqSystolic >= 140 THEN 2 ELSE IF ReqSystolic >= 130 THEN 1 ELSE 0)
       /\ (/\ ReqGender = "female" /\ ReqAge = 60 /\ ReqCholesterol = 250
           /\ ReqSmoker /\ d_cat = "Moderate" /\ ReqSystolic = 145)
            => (heart.score = 10 /\ heart.category = "High")

C4_Witness ==
  /\ Assessed
  /\ ReqGender = "female" /\ ReqAge = 60 /\ ReqCholesterol = 250
  /\ ReqSmoker /\ ReqSystolic = 145
  /\ response.result.diabetes.category = "Moderate"
  /\ response.result.heart.score = 10

(* C5: an assessment never fails on malformed input: every form yields a *)
(* complete report (a BMI, three results, a narrative); fields that are  *)
(* absent or fail to parse count as 0 and a height <= 0 gives BMI 0.0.    *)
C5_NeverFails ==
  ret.done =>
    /\ response.status = 200
    /\ response.result.diabetes.category \in Categories
    /\ response.result.hypertension.category \in Categories
    /\ response.result.heart.category \in Categories
    /\ response.narrative # <<>>
    /\ (call.form.age.kind \in {"absent", "text"}) => history[1].inputs_json[2][2] = "0"
    /\ (call.form.height_cm.kind = "dec" /\ call.form.height_cm.tenths <= 0)
         => response.result.bmi = Tenths(0)

(* The report of a form, as the dashboard renders it *)
ReportOf(form) == Rendered(assess(form))

(* The report the handled request received *)
Report == [k \in DOMAIN response \ {"client"} |-> response[k]]

Recognized(key) ==
  IF key = "gender" THEN {"male", "female"} ELSE {"low", "medium", "high"}

DefaultOf(key) == IF key = "gender" THEN "male" ELSE "low"

(* C6 as stated: an absent or unrecognized gender or activity is         *)
(* replaced by the default (male, low), so the report equals the report  *)
(* of the same request with the default in that field.                    *)
C6_DefaultsUnrecognized ==
  ret.done =>
    \A key \in {"gender", "activity"} :
      (\/ call.form[key].kind = "absent"
       \/ call.form[key].s \notin Recognized(key))
        => Report = ReportOf([call.form EXCEPT ![key] = Text(DefaultOf(key))])

(* C6, amended: an absent gender or activity is replaced by the default  *)
(* (male, low) and the report equals the report of the same request with *)
(* the default in that field; a token that is present, recognized or     *)
(* not, reaches the scorers and the stored inputs as given.               *)
C6_DefaultsWhenAbsent ==
  ret.done =>
    /\ \A key \in {"gender", "activity"} :
         call.form[key].kind = "absent"
           => Report = ReportOf([call.form EXCEPT ![key] = Text(DefaultOf(key))])
    /\ (response.status = 200 /\ call.form.gender.kind = "text")
         => history[1].inputs_json[1] = <<"gender", JsonStr(call.form.gender.s)>>
    /\ (response.status = 200 /\ call.form.activity.kind = "text")
         => history[1].inputs_json[11] = <<"activity", JsonStr(call.form.activity.s)>>

C6_Witness ==
  /\ Assessed
  /\ call.form.gender.kind = "absent" /\ call.form.activity.kind = "absent"
  /\ ReqAge >= 45
  /\ response.result.heart.reasons # <<>>
  /\ response.result.heart.reasons[1] = "Age threshold (+2)"
  /\ \E i \in 1..Len(response.result.diabetes.reasons) :
       response.result.diabetes.reasons[i] = "Low activity (+2)"

RECURSIVE SplitLines(_)
(* text.split("\n") *)
SplitLines(text) ==
  LET ix == {i \in 1..Len(text) : text[i] = "\n"} IN
    IF ix = {} THEN <<text>>
    ELSE LET i == CHOOSE j \in ix : \A k \in ix : j <= k IN
           <<SubSeq(text, 1, i - 1)>> \o SplitLines(SubSeq(text, i + 1, Len(text)))

Lines == SplitLines(response.narrative)

(* The fragments of the combined tips line of the narrative *)
TipsLine == Lines[Len(Lines) - 1]

TipFragments == {TipsLine[i] : i \in 2..Len(TipsLine)} \ {" "}

SpecificTips ==
  {TipWeightLoss[1], TipUnderweight[1], TipGlucoseDiabetic[1],
   TipGlucoseElevated[1], TipBP[1], TipCholHigh[1], TipCholBorderline[1],
   TipSmoking[1], TipWalking[1]}

AnyTipCondition ==
  \/ FGe(response.result.bmi, 30, 1) \/ FLt(response.result.bmi, 185, 10)
  \/ ReqGlucose >= 100
  \/ ReqSystolic >= 140 \/ ReqDiastolic >= 90
  \/ ReqCholesterol >= 200
  \/ ReqSmoker
  \/ ReqActivity = "low"

(* C7: the generic encouragement tip appears iff none of the six tip     *)
(* conditions fires, never together with a specific tip, and the tip     *)
(* list is never empty.                                                   *)
C7_GenericTip ==
  Assessed =>
    /\ (TipGeneric[1] \in TipFragments) = ~AnyTipCondition
    /\ ~(TipGeneric[1] \in TipFragments /\ TipFragments \cap SpecificTips # {})
    /\ TipFragments # {}

C7_Witness ==
  /\ Assessed
  /\ ~AnyTipCondition
  /\ TipFragments = {TipGeneric[1]}

(* C8: the narrative is the header line, then an advisory line for each  *)
(* condition whose category is not Low, in the order diabetes,           *)
(* hypertension, heart, then exactly one tips line, then the disclaimer. *)
C8_NarrativeOrder ==
  Assessed =>
    LET adv == (IF response.result.diabetes.category # "Low"
                  THEN <<AdvDiabetes>> ELSE <<>>)
               \o (IF response.result.hypertension.category # "Low"
                     THEN <<AdvHypertension>> ELSE <<>>)
               \o (IF response.result.heart.category # "Low"
                     THEN <<AdvHeart>> ELSE <<>>)
        n == Len(Lines)
    IN /\ n = Len(adv) + 3
       /\ Lines[1][1] = "Based on your details (Age "
       /\ SubSeq(Lines, 2, n - 2) = adv
       /\ Lines[n - 1][1] = CareTips
       /\ Lines[n] = Disclaimer
       /\ Cardinality({i \in 1..n : Lines[i][1] = CareTips}) = 1

C8_Witness ==
  /\ Assessed
  /\ response.result.diabetes.category = "Low"
  /\ response.result.hypertension.category # "Low"
  /\ response.result.heart.category # "Low"
  /\ Len(Lines) = 5

(* Other raw values of one field, around the thresholds of the rules *)
AltAges == {Absent, Dec(440), Dec(449), Dec(450), Dec(459), Dec(600)}

AltHeights == {Dec(0), Dec(1600), Dec(1700)}

AltWeights == {Absent, Dec(700), Dec(723), Dec(867), Dec(925)}

AltGlucoses == {Text("abc"), Dec(990), Dec(1000), Dec(1250), Dec(1260), Dec(1300)}

AltUnrelated ==
  [gender : {Absent, Text("male"), Text("female"), Text("other")},
   cholesterol : {Dec(2500)}, systolic : {Dec(1650)}, diastolic : {Dec(1050)},
   smoker : {Text("yes")}]
  \cup [gender : {Absent}, cholesterol : {Absent, Dec(2100)},
        systolic : {Text(""), Dec(1350)}, diastolic : {Absent, Dec(850)},
        smoker : {Absent, Text("no")}]

(* x <= y for two BMI values that are numbers *)
BmiLeq(x, y) == x.k = "fin" /\ y.k = "fin" /\ x.n * y.d <= y.n * x.d

(* The scores of two assessments are ordered as their inputs are. *)
Ordered(le, ge, a1, a2) ==
  /\ le => a1.score <= a2.score
  /\ ge => a1.score >= a2.score

(* C9: the diabetes score is non-decreasing in each of age, BMI and      *)
(* fasting glucose, the other diabetes inputs fixed, and it does not     *)
(* change when only gender, cholesterol, systolic, diastolic or smoker   *)
(* change.                                                                *)
C9_DiabetesMonotone ==
  Assessed =>
    LET f == call.form
        d == response.result.diabetes
    IN /\ \A v \in AltAges :
            LET a2 == assess([f EXCEPT !.age = v]) IN
              Ordered(ReqAge <= s_int(v), ReqAge >= s_int(v),
                      d, a2.val.result.diabetes)
       /\ \A v \in AltGlucoses :
            LET a2 == assess([f EXCEPT !.fasting_glucose = v]) IN
              Ordered(ReqGlucose <= s_int(v), ReqGlucose >= s_int(v),
                      d, a2.val.result.diabetes)
       /\ \A hv \in AltHeights, wv \in AltWeights :
            LET a2 == assess([f EXCEPT !.height_cm = hv, !.weight_kg = wv]) IN
              Ordered(BmiLeq(response.result.bmi, a2.val.result.bmi),
                      BmiLeq(a2.val.result.bmi, response.result.bmi),
                      d, a2.val.result.diabetes)
       /\ \A u \in AltUnrelated :
            assess([f EXCEPT !.gender = u.gender, !.cholesterol = u.cholesterol,
                             !.systolic = u.systolic, !.diastolic = u.diastolic,
                             !.smoker = u.smoker]).val.result.diabetes = d

C9_Witness ==
  /\ Assessed
  /\ ReqAge = 44 /\ ReqGlucose = 110 /\ response.result.bmi = Tenths(242)
  /\ response.result.diabetes.score
       < assess([call.form EXCEPT !.age = Dec(450)]).val.result.diabetes.score
  /\ response.result.diabetes.score
       < assess([call.form EXCEPT !.fasting_glucose = Dec(1260)]).val.result.diabetes.score
  /\ response.result.diabetes.score
       < assess([call.form EXCEPT !.weight_kg = Dec(723)]).val.result.diabetes.score

-----------------------------------------------------------------------------
(* Properties of the web application (Spec) *)

(* C10: two assessments with identical raw inputs yield identical        *)
(* reports, whatever requests of the same or other users were handled    *)
(* before or between them.                                                *)
C10_Deterministic ==
  \A e1, e2 \in served : e1.form = e2.form => e1.report = e2.report

C10_Witness ==
  /\ Len(history) = 3
  /\ history[1].user_id # history[3].user_id
  /\ history[1].inputs_json = history[3].inputs_json
  /\ history[2].inputs_json # history[1].inputs_json
  /\ Cardinality(served) = 2

====
